---- MODULE Spec2Model ----
(***************************************************************************)
(* LorebookScript.py: conversion of loosely structured lorebook JSON to    *)
(* the SillyTavern World Info format.                                      *)
(*                                                                         *)
(* Python values are modelled as tagged records.  A str is a sequence of   *)
(* one-character strings, a list is a sequence of values, and a dict built *)
(* by json.load is a sequence of [k, v] pairs with distinct keys, kept in  *)
(* insertion order.  JSON numbers are restricted to integers.  An uncaught *)
(* exception is the value TypeError.                                       *)
(***************************************************************************)
EXTENDS Integers, Sequences, FiniteSets, TLC

VARIABLES
  pc,            \* position of main()
  argv,          \* sys.argv
  input_file,    \* what open(input_file) / json.load find on disk
  output_file,   \* the file at f"{output_name}.json"
  raw_data,      \* main: raw_data
  entries,       \* main: entries
  idx,           \* convert_to_sillytavern: next index of enumerate(input_data)
  conv_entries,  \* convert_to_sillytavern: the local dict entries
  result,        \* main: result
  stdout,        \* lines printed
  io,            \* file operations performed, in order
  stderr,        \* uncaught exceptions reported by the interpreter
  exit_status,   \* {} while running, {n} once the process ended with status n
  call,          \* a direct call of a module function: its name and arguments
  rets           \* the values returned by the direct calls, in order

vars == <<pc, argv, input_file, output_file, raw_data, entries, idx,
          conv_entries, result, stdout, stderr, io, exit_status, call, rets>>

----------------------------------------------------------------------------
(* Python / JSON values *)

None == [t |-> "null"]

JBool(b) == [t |-> "bool", v |-> b]

JNum(n) == [t |-> "num", v |-> n]

JStr(s) == [t |-> "str", v |-> s]

JList(s) == [t |-> "list", v |-> s]

JDict(s) == [t |-> "dict", v |-> s]

Item(k, v) == [k |-> k, v |-> v]

TypeError == [t |-> "TypeError"]

Unset == [t |-> "unset"]

isinstance_list(x) == x.t = "list"

isinstance_str(x) == x.t = "str"

isinstance_dict(x) == x.t = "dict"

\* bool(x): Python truth value of a JSON value
truthy(x) ==
  CASE x.t = "null" -> FALSE
    [] x.t = "bool" -> x.v
    [] x.t = "num"  -> x.v # 0
    [] OTHER        -> Len(x.v) > 0

\* x < n for an int n: defined on int and bool (a bool is an int), TypeError
\* on None, str, list and dict
less_than(x, n) ==
  CASE x.t = "num"  -> JBool(x.v < n)
    [] x.t = "bool" -> JBool((IF x.v THEN 1 ELSE 0) < n)
    [] OTHER        -> TypeError

Digit(d) ==
  CASE d = 0 -> "0" [] d = 1 -> "1" [] d = 2 -> "2" [] d = 3 -> "3"
    [] d = 4 -> "4" [] d = 5 -> "5" [] d = 6 -> "6" [] d = 7 -> "7"
    [] d = 8 -> "8" [] d = 9 -> "9"

\* str(n) for an int n >= 0: its decimal digits, most significant first
RECURSIVE str(_)
str(n) == IF n < 10 THEN <<Digit(n)>> ELSE str(n \div 10) \o <<Digit(n % 10)>>

\* key in d, d[key], d.values() and d[key] = value for a dict
dict_has(d, key) == \E i \in 1..Len(d.v) : d.v[i].k = key

dict_get(d, key) == d.v[CHOOSE i \in 1..Len(d.v) : d.v[i].k = key].v

dict_values(d) == [i \in 1..Len(d.v) |-> d.v[i].v]

dict_set(d, key, value) ==
  IF dict_has(d, key)
    THEN JDict([i \in 1..Len(d.v) |->
                  IF d.v[i].k = key THEN Item(key, value) ELSE d.v[i]])
    ELSE JDict(Append(d.v, Item(key, value)))

\* sub in s for two str
substring(sub, s) ==
  \E i \in 0..(Len(s) - Len(sub)) : SubSeq(s, i + 1, i + Len(sub)) = sub

\* name in entry: key membership for a dict, element membership for a list,
\* substring test for a str, TypeError for None, bool and numbers
contains(entry, name) ==
  CASE entry.t = "dict" -> JBool(dict_has(entry, name))
    [] entry.t = "list" -> JBool(\E i \in 1..Len(entry.v) : entry.v[i] = JStr(name))
    [] entry.t = "str"  -> JBool(substring(name, entry.v))
    [] OTHER            -> TypeError

\* entry[name] for a str name: only a dict can be indexed by a str
subscript(entry, name) ==
  IF entry.t = "dict" THEN dict_get(entry, name) ELSE TypeError

----------------------------------------------------------------------------
(* get_field, parse_keys *)

\* get_field deciding by truth value: a candidate present with a false value
\* is passed over
RECURSIVE get_field_truthy(_, _, _)
get_field_truthy(entry, field_names, default) ==
  IF field_names = <<>> THEN default
  ELSE LET name == Head(field_names)
           found == contains(entry, name)
       IN  IF found = TypeError THEN TypeError
           ELSE IF found.v /\ subscript(entry, name) # TypeError
                           /\ truthy(subscript(entry, name))
             THEN subscript(entry, name)
           ELSE get_field_truthy(entry, Tail(field_names), default)

RECURSIVE get_field(_, _, _)
get_field(entry, field_names, default) ==
  IF field_names = <<>> THEN default
  ELSE LET name == Head(field_names)
           found == contains(entry, name)
       IN  IF found = TypeError THEN TypeError
           ELSE IF found.v THEN subscript(entry, name)
           ELSE get_field(entry, Tail(field_names), default)

\* the characters str.strip() removes, among those the model draws from
Whitespace == {" ", "\t", "\n"}

\* s.split(sep) for a one-character sep: always at least one piece
RECURSIVE split(_, _)
split(s, sep) ==
  IF \A i \in 1..Len(s) : s[i] # sep THEN <<s>>
  ELSE LET i == CHOOSE i \in 1..Len(s) :
                  s[i] = sep /\ \A j \in 1..(i - 1) : s[j] # sep
       IN  <<SubSeq(s, 1, i - 1)>> \o split(SubSeq(s, i + 1, Len(s)), sep)

RECURSIVE lstrip(_)
lstrip(s) == IF s # <<>> /\ Head(s) \in Whitespace THEN lstrip(Tail(s)) ELSE s

RECURSIVE rstrip(_)
rstrip(s) ==
  IF s # <<>> /\ s[Len(s)] \in Whitespace
    THEN rstrip(SubSeq(s, 1, Len(s) - 1)) ELSE s

\* strip removing leading whitespace only
strip_left_only(s) == lstrip(s)

strip(s) == rstrip(lstrip(s))

\* [k.strip() for k in pieces if k.strip()]
RECURSIVE stripped_nonempty(_)
stripped_nonempty(pieces) ==
  IF pieces = <<>> THEN <<>>
  ELSE LET k == strip(Head(pieces))
       IN  (IF k # <<>> THEN <<JStr(k)>> ELSE <<>>)
             \o stripped_nonempty(Tail(pieces))

\* parse_keys wrapping every value that is not a str into a list
parse_keys_wrapping(value) ==
  IF isinstance_str(value)
    THEN JList(stripped_nonempty(split(value.v, ",")))
  ELSE JList(<<value>>)

parse_keys(value) ==
  IF isinstance_list(value) THEN value
  ELSE IF isinstance_str(value)
    THEN JList(stripped_nonempty(split(value.v, ",")))
  ELSE JList(<<>>)

----------------------------------------------------------------------------
(* convert_to_sillytavern: the alias tables of lines 34-55 *)

KeyNames == << <<"k","e","y">>, <<"k","e","y","s">>, <<"k","e","y","w","o","r","d">>, <<"k","e","y","w","o","r","d","s">> >>

KeySecondaryNames == << <<"k","e","y","s","e","c","o","n","d","a","r","y">>, <<"s","e","c","o","n","d","a","r","y","_","k","e","y","s">>, <<"k","e","y","s","_","s","e","c","o","n","d","a","r","y">> >>

ContentNames == << <<"c","o","n","t","e","n","t">>, <<"t","e","x","t">>, <<"e","n","t","r","y">>, <<"b","o","d","y">>, <<"d","e","s","c","r","i","p","t","i","o","n">> >>

CommentNames == << <<"n","a","m","e">>, <<"c","o","m","m","e","n","t">>, <<"t","i","t","l","e">>, <<"m","e","m","o">>, <<"l","a","b","e","l">> >>

EnabledNames == << <<"e","n","a","b","l","e","d">>, <<"a","c","t","i","v","e">> >>

ConstantNames == << <<"c","o","n","s","t","a","n","t">>, <<"a","l","w","a","y","s","_","a","c","t","i","v","e">>, <<"p","e","r","m","a","n","e","n","t">> >>

OrderNames == << <<"i","n","s","e","r","t","i","o","n","_","o","r","d","e","r">>, <<"o","r","d","e","r">>, <<"p","r","i","o","r","i","t","y">>, <<"s","o","r","t","_","o","r","d","e","r">> >>

PositionNames == << <<"p","o","s","i","t","i","o","n">>, <<"i","n","s","e","r","t","_","p","o","s","i","t","i","o","n">> >>

DepthNames == << <<"d","e","p","t","h">>, <<"s","c","a","n","_","d","e","p","t","h">> >>

ProbabilityNames == << <<"p","r","o","b","a","b","i","l","i","t","y">>, <<"c","h","a","n","c","e">>, <<"a","c","t","i","v","a","t","i","o","n","_","c","h","a","n","c","e">> >>

CaseSensitiveNames == << <<"c","a","s","e","_","s","e","n","s","i","t","i","v","e">>, <<"c","a","s","e","S","e","n","s","i","t","i","v","e">> >>

MatchWholeNames == << <<"m","a","t","c","h","W","h","o","l","e","W","o","r","d","s">>, <<"m","a","t","c","h","_","w","h","o","l","e","_","w","o","r","d","s">>, <<"w","h","o","l","e","_","w","o","r","d","s">> >>

SelectiveLogicNames == << <<"s","e","l","e","c","t","i","v","e","L","o","g","i","c">>, <<"s","e","l","e","c","t","i","v","e","_","l","o","g","i","c">> >>

ExcludeRecursionNames == << <<"e","x","c","l","u","d","e","R","e","c","u","r","s","i","o","n">>, <<"e","x","c","l","u","d","e","_","r","e","c","u","r","s","i","o","n">> >>

GroupNames == << <<"c","a","t","e","g","o","r","y">>, <<"g","r","o","u","p">>, <<"t","a","g">>, <<"f","o","l","d","e","r">> >>

\* the default label counting from one
entry_label_from_one(i) == JStr(<<"E","n","t","r","y"," ">> \o str(i + 1))

\* f"Entry {idx}"
entry_label(i) == JStr(<<"E","n","t","r","y"," ">> \o str(i))

\* lines 34-55: the fifteen get_field calls, before parse_keys
resolved(entry, i) ==
  [ keys              |-> get_field(entry, KeyNames, JList(<<>>)),
    keysecondary      |-> get_field(entry, KeySecondaryNames, JList(<<>>)),
    content           |-> get_field(entry, ContentNames, JStr(<<>>)),
    comment           |-> get_field(entry, CommentNames, entry_label(i)),
    enabled           |-> get_field(entry, EnabledNames, JBool(TRUE)),
    constant          |-> get_field(entry, ConstantNames, JBool(FALSE)),
    order             |-> get_field(entry, OrderNames, JNum(100)),
    position          |-> get_field(entry, PositionNames, JNum(4)),
    depth             |-> get_field(entry, DepthNames, JNum(4)),
    probability       |-> get_field(entry, ProbabilityNames, JNum(100)),
    case_sensitive    |-> get_field(entry, CaseSensitiveNames, JBool(FALSE)),
    match_whole       |-> get_field(entry, MatchWholeNames, None),
    selective_logic   |-> get_field(entry, SelectiveLogicNames, JNum(0)),
    exclude_recursion |-> get_field(entry, ExcludeRecursionNames, JBool(FALSE)),
    group             |-> get_field(entry, GroupNames, JStr(<<>>)) ]

\* line 64: len(keysecondary) > 0
selective_of(keysecondary) == JBool(Len(keysecondary.v) > 0)

\* disable copied from enabled, the negation forgotten
disable_as_enabled(enabled) == JBool(truthy(enabled))

\* line 69: not enabled
disable_of(enabled) == JBool(~truthy(enabled))

\* line 72: probability < 100
useProbability_of(probability) == less_than(probability, 100)

\* lines 34-82: one iteration's st_entry, or the TypeError the iteration raises
st_entry(entry, i) ==
  LET r == resolved(entry, i) IN
  IF \E f \in DOMAIN r : r[f] = TypeError THEN TypeError
  ELSE IF useProbability_of(r.probability) = TypeError THEN TypeError
  ELSE
    [ uid              |-> JNum(i),
      key              |-> parse_keys(r.keys),
      keysecondary     |-> parse_keys(r.keysecondary),
      comment          |-> r.comment,
      content          |-> r.content,
      constant         |-> r.constant,
      selective        |-> selective_of(parse_keys(r.keysecondary)),
      selectiveLogic   |-> r.selective_logic,
      addMemo          |-> JBool(TRUE),
      order            |-> r.order,
      position         |-> r.position,
      disable          |-> disable_of(r.enabled),
      excludeRecursion |-> r.exclude_recursion,
      probability      |-> r.probability,
      useProbability   |-> useProbability_of(r.probability),
      depth            |-> r.depth,
      group            |-> r.group,
      scanDepth        |-> None,
      caseSensitive    |-> r.case_sensitive,
      matchWholeWords  |-> r.match_whole,
      automationId     |-> JStr(<<>>),
      role             |-> None,
      vectorized       |-> JBool(FALSE),
      displayIndex     |-> JNum(i) ]

\* lines 85-90: the returned document
document(lorebook_name, ents) ==
  [ name        |-> JStr(lorebook_name),
    description |-> JStr(lorebook_name \o <<" ","W","o","r","l","d"," ","I","n","f","o">>),
    extensions  |-> JDict(<<>>),
    entries     |-> ents ]

----------------------------------------------------------------------------
(* extract_entries *)

ContainerKeys ==
  << <<"e","n","t","r","i","e","s">>, <<"i","t","e","m","s">>, <<"d","a","t","a">>, <<"l","o","r","e","b","o","o","k">>, <<"w","o","r","l","d","I","n","f","o">>, <<"w","o","r","l","d","_","i","n","f","o">> >>

\* the loop ending at the first container key present, usable or not
RECURSIVE scan_first_present_wins(_, _)
scan_first_present_wins(data, keys) ==
  IF keys = <<>> THEN JList(<<data>>)
  ELSE LET key == Head(keys) IN
       IF dict_has(data, key)
         THEN LET container == dict_get(data, key) IN
              IF isinstance_list(container) THEN container
              ELSE IF isinstance_dict(container)
                THEN JList(dict_values(container))
              ELSE JList(<<>>)
         ELSE scan_first_present_wins(data, Tail(keys))

\* the loop running over the members of data, in their order, instead of
\* over the container keys in priority order
scan_in_member_order(data, keys) ==
  LET found == {j \in 1..Len(data.v) :
                  /\ \E i \in 1..Len(keys) : keys[i] = data.v[j].k
                  /\ data.v[j].v.t \in {"list", "dict"}}
  IN  IF found = {} THEN JList(<<data>>)
      ELSE LET container == data.v[CHOOSE j \in found : \A n \in found : j <= n].v
           IN  IF isinstance_list(container) THEN container
               ELSE JList(dict_values(container))

\* lines 100-108: the loop over the container keys, then the single entry
RECURSIVE scan_containers(_, _)
scan_containers(data, keys) ==
  IF keys = <<>> THEN JList(<<data>>)
  ELSE LET key == Head(keys) IN
       IF dict_has(data, key)
         THEN LET container == dict_get(data, key) IN
              IF isinstance_list(container) THEN container
              ELSE IF isinstance_dict(container)
                THEN JList(dict_values(container))
              ELSE scan_containers(data, Tail(keys))
         ELSE scan_containers(data, Tail(keys))

extract_entries(data) ==
  IF isinstance_list(data) THEN data
  ELSE IF isinstance_dict(data) THEN scan_containers(data, ContainerKeys)
  ELSE JList(<<>>)

----------------------------------------------------------------------------
(* main *)

Running == {}

Exited(status) == {status}

\* the empty check never firing
no_entries_never(ents) == FALSE

\* line 137: not entries
no_entries(ents) == ~truthy(ents)

\* line 123: f"{output_name}.json"
output_path(output_name) == output_name \o <<".","j","s","o","n">>

Line(fmt, args) == [fmt |-> fmt, args |-> args]

\* an exception nothing catches: the interpreter reports it and exits with 1
Uncaught(exc) ==
  /\ stderr' = Append(stderr, exc)
  /\ exit_status' = Exited(1)
  /\ pc' = "exited"

\* lines 114-123
CheckArgs ==
  /\ pc = "main"
  /\ IF Len(argv) < 3
       THEN /\ stdout' = stdout \o
                 << Line("Usage: python {script} <input.json> <output_name>", <<JStr(argv[1])>>),
                    Line("Example: python {script} my_lore.json MyWorld", <<JStr(argv[1])>>),
                    Line("         Creates: MyWorld.json", <<>>) >>
            /\ exit_status' = Exited(1)
            /\ pc' = "exited"
       ELSE /\ pc' = "read_input"
            /\ UNCHANGED <<stdout, exit_status>>
  /\ UNCHANGED <<argv, input_file, output_file, raw_data, entries, idx,
                 conv_entries, result, stderr, io, call, rets>>

\* lines 125-133
ReadInput ==
  /\ pc = "read_input"
  /\ io' = Append(io, [op |-> "open", path |-> argv[2], mode |-> "r"])
  /\ CASE input_file.kind = "missing" ->
            /\ stdout' = Append(stdout, Line("Error: '{input_file}' not found", <<JStr(argv[2])>>))
            /\ exit_status' = Exited(1)
            /\ pc' = "exited"
            /\ UNCHANGED <<raw_data, stderr>>
       [] input_file.kind = "malformed" ->
            /\ stdout' = Append(stdout, Line("Error: Invalid JSON - {e}", <<>>))
            /\ exit_status' = Exited(1)
            /\ pc' = "exited"
            /\ UNCHANGED <<raw_data, stderr>>
       [] input_file.kind = "unreadable" ->
            /\ Uncaught("OSError")
            /\ UNCHANGED <<raw_data, stdout>>
       [] input_file.kind = "json" ->
            /\ raw_data' = input_file.data
            /\ pc' = "extract"
            /\ UNCHANGED <<stdout, stderr, exit_status>>
  /\ UNCHANGED <<argv, input_file, output_file, entries, idx, conv_entries,
                 result, call, rets>>

\* line 135
Extract ==
  /\ pc = "extract"
  /\ entries' = extract_entries(raw_data)
  /\ pc' = "check_entries"
  /\ UNCHANGED <<argv, input_file, output_file, raw_data, idx, conv_entries,
                 result, stdout, stderr, io, exit_status, call, rets>>

\* lines 137-139, then the call of line 141 up to line 31
CheckEntries ==
  /\ pc = "check_entries"
  /\ IF no_entries(entries)
       THEN /\ stdout' = Append(stdout, Line("Error: No entries found in input", <<>>))
            /\ exit_status' = Exited(1)
            /\ pc' = "exited"
            /\ UNCHANGED <<idx, conv_entries>>
       ELSE /\ pc' = "convert"
            /\ idx' = 0
            /\ conv_entries' = JDict(<<>>)
            /\ UNCHANGED <<stdout, exit_status>>
  /\ UNCHANGED <<argv, input_file, output_file, raw_data, entries, result,
                 stderr, io, call, rets>>

\* the loop numbering its elements from one
ConvertStepFromOne ==
  /\ pc = "convert"
  /\ idx < Len(entries.v)
  /\ LET e == st_entry(entries.v[idx + 1], idx + 1) IN
     IF e = TypeError
       THEN /\ Uncaught("TypeError")
            /\ UNCHANGED <<idx, conv_entries>>
       ELSE /\ conv_entries' = dict_set(conv_entries, str(idx + 1), e)
            /\ idx' = idx + 1
            /\ UNCHANGED <<pc, stderr, exit_status>>
  /\ UNCHANGED <<argv, input_file, output_file, raw_data, entries, result,
                 stdout, io, call, rets>>

\* lines 33-83: one iteration of the loop over enumerate(input_data)
ConvertStep ==
  /\ pc = "convert"
  /\ idx < Len(entries.v)
  /\ LET e == st_entry(entries.v[idx + 1], idx) IN
     IF e = TypeError
       THEN /\ Uncaught("TypeError")
            /\ UNCHANGED <<idx, conv_entries>>
       ELSE /\ conv_entries' = dict_set(conv_entries, str(idx), e)
            /\ idx' = idx + 1
            /\ UNCHANGED <<pc, stderr, exit_status>>
  /\ UNCHANGED <<argv, input_file, output_file, raw_data, entries, result,
                 stdout, io, call, rets>>

\* lines 85-90 and the assignment of line 141
ConvertReturn ==
  /\ pc = "convert"
  /\ idx = Len(entries.v)
  /\ result' = document(argv[3], conv_entries)
  /\ pc' = "open_output"
  /\ UNCHANGED <<argv, input_file, output_file, raw_data, entries, idx,
                 conv_entries, stdout, stderr, io, exit_status, call, rets>>

\* line 143: open(output_file, "w") truncates the file, or fails
OpenOutput ==
  /\ pc = "open_output"
  /\ io' = Append(io, [op |-> "open", path |-> output_path(argv[3]), mode |-> "w"])
  /\ \/ /\ output_file' = [state |-> "truncated"]
        /\ pc' = "dump"
        /\ UNCHANGED <<stderr, exit_status>>
     \/ /\ Uncaught("OSError")
        /\ UNCHANGED output_file
  /\ UNCHANGED <<argv, input_file, raw_data, entries, idx, conv_entries,
                 result, stdout, call, rets>>

\* line 144: json.dump writes the document, or fails part of the way
Dump ==
  /\ pc = "dump"
  /\ io' = Append(io, [op |-> "write", path |-> output_path(argv[3]), mode |-> "w"])
  /\ \/ /\ output_file' = [state |-> "written", data |-> result]
        /\ pc' = "report"
        /\ UNCHANGED <<stderr, exit_status>>
     \/ /\ output_file' = [state |-> "partial"]
        /\ Uncaught("OSError")
  /\ UNCHANGED <<argv, input_file, raw_data, entries, idx, conv_entries,
                 result, stdout, call, rets>>

\* line 146, then the normal end of the script
Report ==
  /\ pc = "report"
  /\ stdout' = Append(stdout, Line("Converted {len(entries)} entries -> {output_file}",
                                   <<JNum(Len(entries.v)), JStr(output_path(argv[3]))>>))
  /\ exit_status' = Exited(0)
  /\ pc' = "exited"
  /\ UNCHANGED <<argv, input_file, output_file, raw_data, entries, idx,
                 conv_entries, result, stderr, io, call, rets>>

----------------------------------------------------------------------------
(* The inputs the model draws from *)

MaxArgc == 3

MaxEntries == 2

MaxRepeat == 11

MaxContainerFields == 2

MaxFields == 2

MaxNames == 2

MaxKeyLen == 4

\* all sequences over S of length at most n
SeqsUpTo(S, n) == UNION {[1..m -> S] : m \in 0..n}

\* the dicts json.load can build from at most n members with names in K and
\* values in V: member names are distinct
DictsUpTo(K, V, n) ==
  {JDict(s) : s \in {q \in SeqsUpTo([k : K, v : V], n) :
                       \A i, j \in 1..Len(q) : i # j => q[i].k # q[j].k}}

\* sys.argv: the script, the input path, the output name, further arguments
ArgvOf(n) ==
  [i \in 1..n |-> CASE i = 1 -> <<"s",".","p","y">> [] i = 2 -> <<"i","n",".","j","s","o","n">> [] i = 3 -> <<"W">>
                     [] OTHER -> <<"x">>]

Argvs == {ArgvOf(n) : n \in 1..MaxArgc}

\* raw entries: dicts with recognized and unrecognized members, and the
\* other JSON value types
E_empty == JDict(<<>>)

E_foo == JDict(<< Item(<<"f","o","o">>, JNum(1)) >>)

E_shadow ==
  JDict(<< Item(<<"u","i","d">>, JNum(7)), Item(<<"d","i","s","p","l","a","y","I","n","d","e","x">>, JNum(9)),
           Item(<<"s","e","l","e","c","t","i","v","e">>, JBool(TRUE)), Item(<<"u","s","e","P","r","o","b","a","b","i","l","i","t","y">>, JBool(TRUE)),
           Item(<<"d","i","s","a","b","l","e">>, JBool(TRUE)), Item(<<"a","d","d","M","e","m","o">>, JBool(FALSE)) >>)

E_sword ==
  JDict(<< Item(<<"k","e","y","w","o","r","d">>, JStr(<<"s","w","o","r","d",","," ","b","l","a","d","e">>)),
           Item(<<"t","e","x","t">>, JStr(<<"A"," ","s","h","a","r","p"," ","w","e","a","p","o","n",".">>)),
           Item(<<"t","i","t","l","e">>, JStr(<<"S","w","o","r","d">>)) >>)

E_falsy ==
  JDict(<< Item(<<"k","e","y","s">>, JList(<<JStr(<<"k">>)>>)), Item(<<"k","e","y">>, None),
           Item(<<"c","o","m","m","e","n","t">>, JStr(<<"c">>)), Item(<<"n","a","m","e">>, JStr(<<>>)),
           Item(<<"a","c","t","i","v","e">>, JBool(TRUE)), Item(<<"e","n","a","b","l","e","d">>, JNum(0)),
           Item(<<"c","h","a","n","c","e">>, JNum(100)), Item(<<"p","r","o","b","a","b","i","l","i","t","y">>, JNum(0)),
           Item(<<"c","o","n","s","t","a","n","t">>, JBool(FALSE)), Item(<<"p","e","r","m","a","n","e","n","t">>, JBool(TRUE)) >>)

E_secondary ==
  JDict(<< Item(<<"k","e","y","s","e","c","o","n","d","a","r","y">>, JList(<<JStr(<<"s">>), JNum(2)>>)),
           Item(<<"p","r","o","b","a","b","i","l","i","t","y">>, JBool(TRUE)), Item(<<"e","n","a","b","l","e","d">>, None),
           Item(<<"s","e","l","e","c","t","i","v","e">>, JBool(FALSE)), Item(<<"d","i","s","a","b","l","e">>, JBool(FALSE)),
           Item(<<"u","s","e","P","r","o","b","a","b","i","l","i","t","y">>, JBool(FALSE)) >>)

E_chance == JDict(<< Item(<<"c","h","a","n","c","e">>, JNum(99)), Item(<<"a","c","t","i","v","e">>, JBool(FALSE)),
                     Item(<<"s","e","c","o","n","d","a","r","y","_","k","e","y","s">>, JStr(<<" ",",">>)) >>)

E_over == JDict(<< Item(<<"a","c","t","i","v","a","t","i","o","n","_","c","h","a","n","c","e">>, JNum(101)), Item(<<"u","i","d">>, JNum(5)) >>)

E_high == JDict(<< Item(<<"p","r","o","b","a","b","i","l","i","t","y">>, JStr(<<"h","i","g","h">>)) >>)

DictEntries ==
  {E_empty, E_foo, E_shadow, E_sword, E_falsy, E_secondary, E_chance, E_over,
   E_high}

OtherEntries ==
  {None, JBool(TRUE), JNum(3), JStr(<<"m","o","n","k","e","y">>), JStr(<<"z","z">>),
   JList(<<JStr(<<"t","a","g">>)>>), JList(<<>>)}

EntryPool == DictEntries \cup OtherEntries

\* what a container key can hold
ContainerValues ==
  {JList(<<E_sword>>),
   JDict(<< Item(<<"b">>, E_foo), Item(<<"a">>, E_sword), Item(<<"c">>, E_empty) >>),
   None}

ContainerNames == {ContainerKeys[i] : i \in 1..Len(ContainerKeys)} \cup {<<"f","o","o">>}

RawData ==
     {JList(s) : s \in SeqsUpTo(EntryPool, MaxEntries)}
  \cup {JList([i \in 1..n |-> E_empty]) : n \in (MaxEntries + 1)..MaxRepeat}
  \cup DictsUpTo(ContainerNames, ContainerValues, MaxContainerFields)
  \cup {E_sword, None, JNum(1), JBool(FALSE), JStr(<<"e","n","t","r","i","e","s">>),
        JDict(<< Item(<<"e","n","t","r","i","e","s">>, JNum(5)), Item(<<"i","t","e","m","s">>, JStr(<<"x">>)) >>),
        JDict(<< Item(<<"e","n","t","r","i","e","s">>, JList(<<>>)) >>),
        JDict(<< Item(<<"w","o","r","l","d","_","i","n","f","o">>, JDict(<<>>)), Item(<<"w","o","r","l","d","I","n","f","o">>, JNum(3)) >>),
        JDict(<< Item(<<"i","t","e","m","s">>, JList(<<>>)), Item(<<"e","n","t","r","i","e","s">>, None) >>)}

InputFiles ==
  {[kind |-> "missing"], [kind |-> "malformed"], [kind |-> "unreadable"]}
    \cup {[kind |-> "json", data |-> d] : d \in RawData}

NoCall == [fn |-> "none"]

Init ==
  /\ pc = "main"
  /\ argv \in Argvs
  /\ input_file \in InputFiles
  /\ output_file = [state |-> "untouched"]
  /\ raw_data = Unset
  /\ entries = Unset
  /\ idx = 0
  /\ conv_entries = Unset
  /\ result = Unset
  /\ stdout = <<>>
  /\ stderr = <<>>
  /\ io = <<>>
  /\ exit_status = Running
  /\ call = NoCall
  /\ rets = <<>>

Next ==
  \/ CheckArgs
  \/ ReadInput
  \/ Extract
  \/ CheckEntries
  \/ ConvertStep
  \/ ConvertReturn
  \/ OpenOutput
  \/ Dump
  \/ Report

Spec == Init /\ [][Next]_vars

----------------------------------------------------------------------------
(* The module imported rather than run (line 149): its functions called     *)
(* directly, on arguments drawn from bounded sets                           *)

FieldNames == {<<"a">>, <<"b">>, <<"c">>}

\* values Python counts as false, and one it counts as true
FieldValues == {None, JBool(FALSE), JNum(0), JStr(<<>>), JNum(7)}

\* the calls of lines 34-55 as (field_names, default) pairs, for index 0
FieldTable ==
  { <<KeyNames, JList(<<>>)>>, <<KeySecondaryNames, JList(<<>>)>>,
    <<ContentNames, JStr(<<>>)>>, <<CommentNames, entry_label(0)>>,
    <<EnabledNames, JBool(TRUE)>>, <<ConstantNames, JBool(FALSE)>>,
    <<OrderNames, JNum(100)>>, <<PositionNames, JNum(4)>>,
    <<DepthNames, JNum(4)>>, <<ProbabilityNames, JNum(100)>>,
    <<CaseSensitiveNames, JBool(FALSE)>>, <<MatchWholeNames, None>>,
    <<SelectiveLogicNames, JNum(0)>>, <<ExcludeRecursionNames, JBool(FALSE)>>,
    <<GroupNames, JStr(<<>>)>> }

GetFieldCalls ==
     {[fn |-> "get_field", entry |-> e, field_names |-> t[1], default |-> t[2]] :
        e \in DictEntries, t \in FieldTable}
  \cup {[fn |-> "get_field", entry |-> e, field_names |-> n, default |-> JNum(100)] :
        e \in DictsUpTo(FieldNames, FieldValues, MaxFields),
        n \in SeqsUpTo(FieldNames, MaxNames)}

KeyAlphabet == {"a", "b", ",", " ", "\t"}

KeyInputs ==
     {JStr(s) : s \in SeqsUpTo(KeyAlphabet, MaxKeyLen)}
  \cup {JStr(<<"a",","," ","b"," ",",",",","c">>), JStr(<<"s","w","o","r","d",","," ","b","l","a","d","e">>), JStr(<<"\n"," ","x"," ","y"," ","\n",",","\n">>)}
  \cup {JList(<<>>), JList(<<JStr(<<"a">>), JNum(1), None>>),
        JList(<<JStr(<<" ","a"," ">>), JStr(<<>>)>>)}
  \cup {None, JBool(TRUE), JNum(0), JNum(5), E_foo}

ParseKeysCalls == {[fn |-> "parse_keys", value |-> x] : x \in KeyInputs}

InitImported(calls) ==
  /\ pc = "imported"
  /\ argv = <<>>
  /\ input_file = [kind |-> "missing"]
  /\ output_file = [state |-> "untouched"]
  /\ raw_data = Unset
  /\ entries = Unset
  /\ idx = 0
  /\ conv_entries = Unset
  /\ result = Unset
  /\ stdout = <<>>
  /\ stderr = <<>>
  /\ io = <<>>
  /\ exit_status = Running
  /\ call \in calls
  /\ rets = <<>>

Return(value) ==
  /\ rets' = Append(rets, value)
  /\ UNCHANGED <<pc, argv, input_file, output_file, raw_data, entries, idx,
                 conv_entries, result, stdout, stderr, io, exit_status, call>>

\* get_field(entry, *field_names, default=default)
CallGetField ==
  /\ pc = "imported"
  /\ call.fn = "get_field"
  /\ rets = <<>>
  /\ Return(get_field(call.entry, call.field_names, call.default))

\* the same call with all arguments but the default reversed
CallGetFieldReversed ==
  /\ pc = "imported"
  /\ call.fn = "get_field"
  /\ Len(rets) = 1
  /\ Return(get_field(call.entry,
                      [i \in 1..Len(call.field_names) |->
                         call.field_names[Len(call.field_names) + 1 - i]],
                      call.default))

InitFields == InitImported(GetFieldCalls)

NextFields == CallGetField \/ CallGetFieldReversed

SpecFields == InitFields /\ [][NextFields]_vars

\* parse_keys(value)
CallParseKeys ==
  /\ pc = "imported"
  /\ call.fn = "parse_keys"
  /\ rets = <<>>
  /\ Return(parse_keys(call.value))

\* parse_keys applied to what parse_keys returned
CallParseKeysAgain ==
  /\ pc = "imported"
  /\ call.fn = "parse_keys"
  /\ Len(rets) = 1
  /\ Return(parse_keys(rets[1]))

\* convert_to_sillytavern([{"keys": value, "secondary_keys": value}]): its
\* single iteration
CallConvertKeyed ==
  /\ pc = "imported"
  /\ call.fn = "parse_keys"
  /\ Len(rets) = 2
  /\ Return(st_entry(JDict(<< Item(<<"k","e","y","s">>, call.value),
                              Item(<<"s","e","c","o","n","d","a","r","y","_","k","e","y","s">>, call.value) >>), 0))

InitKeys == InitImported(ParseKeysCalls)

NextKeys == CallParseKeys \/ CallParseKeysAgain \/ CallConvertKeyed

SpecKeys == InitKeys /\ [][NextKeys]_vars

----------------------------------------------------------------------------
(* Properties of extract_entries (checked under Spec) *)

Min(S) == CHOOSE m \in S : \A n \in S : m <= n

Max(S) == CHOOSE m \in S : \A n \in S : n <= m

\* the positions, in priority order, of the container keys present in dict d
PresentKeys(d) ==
  {i \in 1..Len(ContainerKeys) : \E j \in 1..Len(d.v) : d.v[j].k = ContainerKeys[i]}

\* the value dict d holds under the container key of priority i
HeldUnder(d, i) ==
  d.v[CHOOSE j \in 1..Len(d.v) : d.v[j].k = ContainerKeys[i]].v

Usable(x) == x.t \in {"list", "dict"}

\* the entries a usable container holds: a list's elements, a dict's member
\* values in insertion order
HeldEntries(x) ==
  IF x.t = "list" THEN x.v ELSE [j \in 1..Len(x.v) |-> x.v[j].v]

Extracted == entries # Unset

\* dict input whose earliest present container key holds neither a list nor
\* a dict
FirstPresentUnusable ==
  /\ Extracted
  /\ raw_data.t = "dict"
  /\ PresentKeys(raw_data) # {}
  /\ ~Usable(HeldUnder(raw_data, Min(PresentKeys(raw_data))))

\* C1 as stated: when the earliest present container key holds a value that
\* is neither list nor dict, extraction yields the empty sequence (no fall
\* through to a later key, no single-entry fallback).
C1_FirstPresentKeyWins == FirstPresentUnusable => entries = JList(<<>>)

\* C1 amended: when the earliest present container key holds a value that is
\* neither list nor dict, that key is skipped: extraction returns the content
\* of the earliest container key, in priority order, that holds a list or a
\* dict, and when no present key does, the one-element sequence holding the
\* whole input object.
C1_UnusableKeySkipped ==
  FirstPresentUnusable =>
    LET U == {i \in PresentKeys(raw_data) : Usable(HeldUnder(raw_data, i))} IN
    IF U = {} THEN entries = JList(<<raw_data>>)
    ELSE entries.t = "list" /\ entries.v = HeldEntries(HeldUnder(raw_data, Min(U)))

\* an unusable "entries" member followed in priority by a usable one, whose
\* content was extracted
C1_Witness ==
  /\ FirstPresentUnusable
  /\ pc = "check_entries"
  /\ \E i \in PresentKeys(raw_data) :
       /\ i > Min(PresentKeys(raw_data))
       /\ Usable(HeldUnder(raw_data, i))
       /\ entries.v = HeldEntries(HeldUnder(raw_data, i))
       /\ Len(entries.v) > 0

\* C6: a list input is returned unchanged; a dict input all of whose present
\* container keys hold a list or a dict yields the content of the earliest
\* present key in priority order (a dict's values in insertion order), or,
\* with no container key present, the one-element sequence holding the whole
\* dict; any other input yields the empty sequence.
C6_ExtractionPrecedence ==
  Extracted =>
    /\ entries.t = "list"
    /\ raw_data.t = "list" => entries = raw_data
    /\ raw_data.t \notin {"list", "dict"} => entries.v = <<>>
    /\ ( /\ raw_data.t = "dict"
         /\ \A i \in PresentKeys(raw_data) : Usable(HeldUnder(raw_data, i)) )
       => IF PresentKeys(raw_data) = {}
            THEN entries.v = <<raw_data>>
            ELSE entries.v =
                   HeldEntries(HeldUnder(raw_data, Min(PresentKeys(raw_data))))

\* two usable container keys, the one of higher priority stored second and
\* holding a dict, whose three values were extracted in insertion order
C6_Witness ==
  /\ Extracted
  /\ raw_data.t = "dict"
  /\ Len(raw_data.v) = 2
  /\ Cardinality(PresentKeys(raw_data)) = 2
  /\ raw_data.v[2].k = ContainerKeys[Min(PresentKeys(raw_data))]
  /\ raw_data.v[2].v.t = "dict"
  /\ raw_data.v[1].v = JList(<<E_sword>>)
  /\ entries.v = <<E_foo, E_sword, E_empty>>

----------------------------------------------------------------------------
(* Properties of the loop of convert_to_sillytavern (checked under Spec) *)

Converting == conv_entries # Unset

\* C2 as stated: normalization raises no error, whatever JSON value an
\* element of the extracted sequence is and whatever a field resolves to.
C2_NormalizerTotal == \A i \in 1..Len(stderr) : stderr[i] # "TypeError"

Falsy ==
  {None, JBool(FALSE), JNum(0), JStr(<<>>), JList(<<>>), JDict(<<>>)}

\* the value raw entry e holds under name n
Held(e, n) == e.v[CHOOSE j \in 1..Len(e.v) : e.v[j].k = n].v

Has(e, n) == e.t = "dict" /\ \E j \in 1..Len(e.v) : e.v[j].k = n

\* the input's "enabled" flag: under enabled, else under active, else true
EnabledOf(e) ==
  IF Has(e, <<"e","n","a","b","l","e","d">>) THEN Held(e, <<"e","n","a","b","l","e","d">>)
  ELSE IF Has(e, <<"a","c","t","i","v","e">>) THEN Held(e, <<"a","c","t","i","v","e">>)
  ELSE JBool(TRUE)

\* C3: in every entry produced, selective = (len(keysecondary) > 0),
\* useProbability = (probability < 100) and disable = (not enabled), with
\* enabled resolved from enabled, active, default true; an input member named
\* selective, useProbability or disable has no influence.
C3_DerivedFields ==
  Converting =>
    \A p \in 1..Len(conv_entries.v) :
      LET e == conv_entries.v[p].v
          raw == entries.v[p]
      IN  /\ e.selective = JBool(Len(e.keysecondary.v) > 0)
          /\ e.probability.t \in {"num", "bool"}
          /\ e.useProbability =
               JBool(IF e.probability.t = "num" THEN e.probability.v < 100 ELSE TRUE)
          /\ e.disable = JBool(EnabledOf(raw) \in Falsy)

\* an entry whose input says selective, disable and useProbability false and
\* whose output has all three true
C3_Witness ==
  /\ Converting
  /\ \E p \in 1..Len(conv_entries.v) :
       LET e == conv_entries.v[p].v
           raw == entries.v[p]
       IN  /\ Has(raw, <<"s","e","l","e","c","t","i","v","e">>) /\ Held(raw, <<"s","e","l","e","c","t","i","v","e">>) = JBool(FALSE)
           /\ Has(raw, <<"d","i","s","a","b","l","e">>) /\ Held(raw, <<"d","i","s","a","b","l","e">>) = JBool(FALSE)
           /\ Has(raw, <<"u","s","e","P","r","o","b","a","b","i","l","i","t","y">>)
           /\ Held(raw, <<"u","s","e","P","r","o","b","a","b","i","l","i","t","y">>) = JBool(FALSE)
           /\ e.selective = JBool(TRUE)
           /\ e.disable = JBool(TRUE)
           /\ e.useProbability = JBool(TRUE)

DigitValue(c) ==
  CASE c = "0" -> 0 [] c = "1" -> 1 [] c = "2" -> 2 [] c = "3" -> 3
    [] c = "4" -> 4 [] c = "5" -> 5 [] c = "6" -> 6 [] c = "7" -> 7
    [] c = "8" -> 8 [] c = "9" -> 9

\* s is the decimal numeral of n: digits only, no leading zero
RECURSIVE NumeralValue(_)
NumeralValue(s) ==
  IF Len(s) = 1 THEN DigitValue(s[1])
  ELSE 10 * NumeralValue(SubSeq(s, 1, Len(s) - 1)) + DigitValue(s[Len(s)])

IsNumeralOf(s, n) ==
  /\ Len(s) >= 1
  /\ \A i \in 1..Len(s) :
       s[i] \in {"0", "1", "2", "3", "4", "5", "6", "7", "8", "9"}
  /\ Len(s) > 1 => s[1] # "0"
  /\ NumeralValue(s) = n

\* C4: the entry map holds, in input order, one entry per input element
\* processed; the i-th (from 0) is stored under the decimal numeral of i, is
\* the normalization of the i-th input element and has uid = displayIndex =
\* i; the returned document holds exactly the numerals of 0..N-1.
C4_IndexStamping ==
  /\ Converting =>
       /\ Len(conv_entries.v) = idx
       /\ idx <= Len(entries.v)
       /\ \A p \in 1..Len(conv_entries.v) :
            /\ IsNumeralOf(conv_entries.v[p].k, p - 1)
            /\ conv_entries.v[p].v = st_entry(entries.v[p], p - 1)
            /\ conv_entries.v[p].v.uid = JNum(p - 1)
            /\ conv_entries.v[p].v.displayIndex = JNum(p - 1)
  /\ result # Unset =>
       /\ result.entries = conv_entries
       /\ Len(result.entries.v) = Len(entries.v)

\* a returned document whose second entry comes from an input element that
\* carries its own uid
C4_Witness ==
  /\ result # Unset
  /\ Len(entries.v) = 2
  /\ entries.v[2] = E_over
  /\ result.entries.v[2].k = <<"1">>
  /\ result.entries.v[2].v.uid = JNum(1)
  /\ result.entries.v[2].v.displayIndex = JNum(1)

AllAliases ==
  UNION {{t[i] : i \in 1..Len(t)} :
           t \in {KeyNames, KeySecondaryNames, ContentNames, CommentNames,
                  EnabledNames, ConstantNames, OrderNames, PositionNames,
                  DepthNames, ProbabilityNames, CaseSensitiveNames,
                  MatchWholeNames, SelectiveLogicNames, ExcludeRecursionNames,
                  GroupNames}}

DefaultEntry(i) ==
  [ uid              |-> JNum(i),
    displayIndex     |-> JNum(i),
    comment          |-> JStr(<<"E","n","t","r","y"," ">> \o str(i)),
    content          |-> JStr(<<>>),
    key              |-> JList(<<>>),
    keysecondary     |-> JList(<<>>),
    order            |-> JNum(100),
    position         |-> JNum(4),
    depth            |-> JNum(4),
    probability      |-> JNum(100),
    constant         |-> JBool(FALSE),
    disable          |-> JBool(FALSE),
    selective        |-> JBool(FALSE),
    useProbability   |-> JBool(FALSE),
    group            |-> JStr(<<>>),
    caseSensitive    |-> JBool(FALSE),
    selectiveLogic   |-> JNum(0),
    excludeRecursion |-> JBool(FALSE),
    matchWholeWords  |-> None,
    addMemo          |-> JBool(TRUE),
    automationId     |-> JStr(<<>>),
    role             |-> None,
    vectorized       |-> JBool(FALSE),
    scanDepth        |-> None ]

LacksEveryAlias(e) ==
  e.t = "dict" /\ \A j \in 1..Len(e.v) : e.v[j].k \notin AllAliases

\* C8: a raw entry object with none of the recognized alias names, whatever
\* else it holds, is normalized at index i to exactly the default-filled
\* entry, fixed constants included.
C8_DefaultEntry ==
  Converting =>
    \A p \in 1..Len(conv_entries.v) :
      LacksEveryAlias(entries.v[p]) => conv_entries.v[p].v = DefaultEntry(p - 1)

\* an object with six unrecognized members, named like output fields,
\* normalized at index 1
C8_Witness ==
  /\ Converting
  /\ Len(conv_entries.v) = 2
  /\ entries.v[2] = E_shadow
  /\ LacksEveryAlias(E_shadow)
  /\ conv_entries.v[2].v.comment = JStr(<<"E", "n", "t", "r", "y", " ", "1">>)
  /\ conv_entries.v[2].v.position = JNum(4)

----------------------------------------------------------------------------
(* Properties of main (checked under Spec) *)

OutputOpened == \E i \in 1..Len(io) : io[i].mode = "w"

UsageError == Len(argv) < 3

InputNotFound == ~UsageError /\ input_file.kind = "missing"

MalformedJSON == ~UsageError /\ input_file.kind = "malformed"

NoEntries == Extracted /\ Len(entries.v) = 0

\* C5: the output file is opened only after the argument check passed, the
\* input was read and parsed and extraction returned a non-empty sequence;
\* a usage error, a missing input, malformed JSON and zero entries each end
\* the process with a non-zero status, the output file never written, the
\* usage error before any file operation; status 0 only after the output
\* file was written.
C5_OutputOnlyAfterChecks ==
  /\ OutputOpened =>
       /\ ~UsageError
       /\ io[1] = [op |-> "open", path |-> argv[2], mode |-> "r"]
       /\ input_file.kind = "json"
       /\ raw_data = input_file.data
       /\ Extracted
       /\ Len(entries.v) > 0
  /\ UsageError => io = <<>> /\ pc \in {"main", "exited"}
  /\ InputNotFound \/ MalformedJSON => pc \in {"main", "read_input", "exited"}
  /\ NoEntries => pc \in {"check_entries", "exited"}
  /\ (UsageError \/ InputNotFound \/ MalformedJSON \/ NoEntries) =>
       /\ ~OutputOpened
       /\ output_file = [state |-> "untouched"]
       /\ pc = "exited" => exit_status # {} /\ 0 \notin exit_status
  /\ pc = "exited" <=> exit_status # {}
  /\ 0 \in exit_status =>
       /\ output_file = [state |-> "written", data |-> result]
       /\ io[Len(io)].op = "write"

\* a run that read its input, extracted an empty sequence and ended with
\* status 1, the output file untouched
C5_Witness ==
  /\ pc = "exited"
  /\ NoEntries
  /\ exit_status = {1}
  /\ Len(io) = 1
  /\ output_file = [state |-> "untouched"]

----------------------------------------------------------------------------
(* Properties of get_field (checked under SpecFields) *)

\* the positions of the candidate names that are keys of the called entry
PresentNames ==
  {i \in 1..Len(call.field_names) :
     \E j \in 1..Len(call.entry.v) : call.entry.v[j].k = call.field_names[i]}

\* C7: on an object entry get_field returns the value stored under the first
\* candidate name, left to right, that is a key of the entry, whatever that
\* value is, and the default only when no candidate name is a key.
C7_FirstPresentName ==
  /\ Len(rets) >= 1 =>
       IF PresentNames = {} THEN rets[1] = call.default
       ELSE rets[1] = Held(call.entry, call.field_names[Min(PresentNames)])
  /\ Len(rets) >= 2 =>
       IF PresentNames = {} THEN rets[2] = call.default
       ELSE rets[2] = Held(call.entry, call.field_names[Max(PresentNames)])

\* two candidate names present, the first holding a value Python counts as
\* false, the second one it counts as true: the first is returned
C7_Witness ==
  /\ Len(rets) >= 1
  /\ Cardinality(PresentNames) = 2
  /\ Held(call.entry, call.field_names[Min(PresentNames)]) \in Falsy
  /\ Held(call.entry, call.field_names[Max(PresentNames)]) \notin Falsy
  /\ rets[1] \in Falsy
  /\ rets[1] # call.default

----------------------------------------------------------------------------
(* Properties of parse_keys (checked under SpecKeys) *)

\* the positions of s that hold neither whitespace nor a comma
ContentAt(s) == {i \in 1..Len(s) : s[i] \notin Whitespace \cup {","}}

NoCommaWithin(s, i, j) == \A k \in i..j : s[k] # ","

\* the first content position of each comma-separated segment that has one
SegmentStarts(s) ==
  {i \in ContentAt(s) : \A j \in ContentAt(s) : j < i => ~NoCommaWithin(s, j, i)}

\* the last content position of the segment that position f lies in
SegmentEnd(s, f) == Max({i \in ContentAt(s) : i >= f /\ NoCommaWithin(s, f, i)})

\* the k-th smallest element of a set of numbers
Kth(S, k) == CHOOSE m \in S : Cardinality({n \in S : n < m}) = k - 1

\* C9: parse_keys returns a sequence, never null: a list unchanged; for a
\* string, one piece per comma-separated segment that holds a non-whitespace
\* character, in order, each running from the first to the last such
\* character of its segment (so never empty, never with surrounding
\* whitespace); for any other value the empty sequence.  The key and
\* keysecondary of an entry built from such values are these sequences.
C9_ParseKeys ==
  /\ Len(rets) >= 1 =>
       LET x == call.value
           r == rets[1]
       IN  /\ r.t = "list"
           /\ x.t = "list" => r = x
           /\ x.t \notin {"list", "str"} => r.v = <<>>
           /\ x.t = "str" =>
                /\ Len(r.v) = Cardinality(SegmentStarts(x.v))
                /\ \A k \in 1..Len(r.v) :
                     LET f == Kth(SegmentStarts(x.v), k) IN
                     /\ r.v[k] = JStr(SubSeq(x.v, f, SegmentEnd(x.v, f)))
                     /\ Len(r.v[k].v) > 0
                     /\ r.v[k].v[1] \notin Whitespace
                     /\ r.v[k].v[Len(r.v[k].v)] \notin Whitespace
           /\ x = JStr(<<"a",","," ","b"," ",",",",","c">>) => r = JList(<<JStr(<<"a">>), JStr(<<"b">>), JStr(<<"c">>)>>)
  /\ Len(rets) >= 3 =>
       /\ rets[3].key = rets[1]
       /\ rets[3].keysecondary = rets[1]

\* the string "a, b ,,c" parsed to the three pieces a, b, c
C9_Witness ==
  /\ Len(rets) >= 1
  /\ call.value = JStr(<<"a",","," ","b"," ",",",",","c">>)
  /\ rets[1] = JList(<<JStr(<<"a">>), JStr(<<"b">>), JStr(<<"c">>)>>)

\* C10: parse_keys(parse_keys(x)) = parse_keys(x) for every x.
C10_Idempotent == Len(rets) >= 2 => rets[2] = rets[1]

\* a string with commas and whitespace parsed to two pieces, and parsed
\* again to the same two pieces
C10_Witness ==
  /\ Len(rets) >= 2
  /\ call.value.t = "str"
  /\ \E i \in 1..Len(call.value.v) : call.value.v[i] \in Whitespace
  /\ Len(rets[1].v) = 2
  /\ rets[2] = rets[1]

============================================================================
